---- MODULE Spec2Model ----
(***************************************************************************)
(* Model of homebridge-sternet-smart-lan: the per-device controller        *)
(* CCTDownlighter (connection life cycle, timers, desired state and the    *)
(* frames it transmits).  The reference iteration is the third one         *)
(* (src/unnamed/part_001, lines 410-860); the first iteration              *)
(* (src/src/CCTDownlighterAccessory.ts) is modelled for its reconnect      *)
(* logic.                                                                  *)
(*                                                                         *)
(* The `ws` library is the environment.  A socket is CONNECTING, OPEN,     *)
(* ABORTED (close()/terminate() called before the handshake finished:      *)
(* readyState CLOSING, an 'error' and a 'close' event still to come),      *)
(* CLOSING (readyState CLOSING, a 'close' event still to come) or CLOSED.  *)
(* Every socket keeps the listeners connectWebSocket attached to it, so a  *)
(* socket that this.ws no longer points to still delivers its events.      *)
(***************************************************************************)
EXTENDS Integers, Sequences, FiniteSets, TLC

\* ------------------------------------------------------------------ bounds
\* Number of calls of connectWebSocket the model follows (the code has no limit).
MaxAttempts == 3

\* --------------------------------------------------------------- state
VARIABLES
  iteration,           \* 1: src/src/CCTDownlighterAccessory.ts, 3: reference iteration
  urlValid,            \* does `new WebSocket(wsUrl)` accept the configured address
  restoreState,        \* this.restoreState (restore_state of the device config)
  ws,                  \* this.ws: 0 is null, else the id of the socket
  sock,                \* state of every socket ever created
  attempts,            \* number of calls of connectWebSocket so far
  reconnectInterval,   \* this.reconnectInterval  (third iteration, setInterval)
  reconnectTimeout,    \* this.reconnectTimeout   (first iteration, setTimeout)
  statusCheckInterval, \* this.statusCheckInterval
  connectionTimeout,   \* this.connectionTimeout
  isOnline,            \* this.isOnline
  responding,          \* last value pushed to the On characteristic is a real value
  lastStatus,          \* this.lastStatus: 0 is null, else the id of the status frame
  info,                \* SerialNumber, FirmwareRevision and Name characteristics
  states,              \* this.states
  context_state,       \* accessory.context.state
  out,                 \* frames handed to ws.send by the last handler, in order
  lastEvent,           \* the handler that ran last, with its argument
  destroyed,           \* history: destroy() has been called
  unsent,              \* history: a set-request changed states and no color frame was sent since
  platform             \* the platform: config, restored accessories, hub calls, controllers

vars == <<iteration, urlValid, restoreState, ws, sock, attempts, reconnectInterval,
          reconnectTimeout, statusCheckInterval, connectionTimeout, isOnline,
          responding, lastStatus, info, states, context_state, out, lastEvent,
          destroyed, unsent, platform>>

Sockets == 1..MaxAttempts

\* Values the hub writes in the model.
BrightnessValues == {50, 100}
MiredValues == {143, 300}

StateRecords == [On : BOOLEAN, Brightness : BrightnessValues, ColorTemperature : MiredValues]

DefaultStates == [On |-> FALSE, Brightness |-> 100, ColorTemperature |-> 300]

\* accessory.context.state is undefined (no record was ever stored)
NoCachedState == [On |-> FALSE, Brightness |-> -1, ColorTemperature |-> -1]

CachedStates == StateRecords \cup {NoCachedState}

\* A timer handle: "null", "pending" (scheduled), or "spent" (the field still
\* holds the handle but the timer was cleared or, for a one-shot timer, has fired).
\* "duplicate": the field holds a pending timer and a timer it held before is
\* still pending too.
TimerValues == {"null", "pending", "spent", "duplicate"}

\* `field = setTimeout(...)` / `field = setInterval(...)` over the old value t
arm(t) == IF t \in {"pending", "duplicate"} THEN "duplicate" ELSE "pending"

\* ------------------------------------------------------ the ws library
\* A socket is "NONE" (not created), "CONNECTING", "OPEN", "ABORTED" (closed by
\* the controller during the handshake: 'error' and 'close' are still to come),
\* "CLOSING" (closed by the controller while open: readyState CLOSING, and the
\* library still hands over the frames and errors that arrive until the
\* transport is gone), "ENDING" (the peer closed or ended the stream:
\* readyState CLOSING as well; frames received before the end, still being
\* inflated, and the error of one that cannot be inflated are handed over
\* after it), "ERRORED" (readyState CLOSING, 'error' was emitted for a frame
\* or a handshake answer the library rejected: only 'close' is still to come)
\* or "CLOSED" ('close' was emitted).
\* ws.close() and ws.terminate(): a socket still connecting is aborted, an open
\* one starts closing, a closing or closed one stays as it is.
\* (First a close that does nothing to the socket.)
closeSock_noop(st) == st

closeSock(st) ==
  IF st = "CONNECTING" THEN "ABORTED"
  ELSE IF st = "OPEN" THEN "CLOSING"
  ELSE st

\* this.ws?.readyState === WebSocket.OPEN, in the socket table sk
wsIsOpen(w, sk) == w # 0 /\ sk[w] = "OPEN"

\* Inbound frames: text that is not JSON, JSON that is not an object, a JSON
\* object with none of the three identifying fields, the objects that lack
\* exactly one of them (the first status frame with that field removed), and
\* the status frames.
StatusFields == {"hostname", "mac", "firmwareVersion"}

\* JSON null, as the value of a field
JsonNull == 0 - 1

\* The status frames of the model, by id: two devices that report themselves,
\* and a frame that carries the three fields with firmwareVersion null.
DeviceStatuses ==
  <<[hostname |-> "lamp1", mac |-> "AA:BB:CC", firmwareVersion |-> 1000203],
    [hostname |-> "lamp2", mac |-> "AA:BB:CD", firmwareVersion |-> 42],
    [hostname |-> "lamp3", mac |-> "AA:BB:CE", firmwareVersion |-> JsonNull]>>

StatusIds == DOMAIN DeviceStatuses

InboundFrames ==
  {[shape |-> "text", has |-> {}, id |-> 0], [shape |-> "scalar", has |-> {}, id |-> 0]}
  \cup {[shape |-> "object", has |-> {}, id |-> 0]}
  \cup {[shape |-> "object", has |-> StatusFields \ {x}, id |-> 1] : x \in StatusFields}
  \cup {[shape |-> "object", has |-> StatusFields, id |-> i] : i \in StatusIds}

\* JSON.parse(data.toString()) followed by the three `in` tests throws for text
\* that is not JSON and for JSON that is not an object.
parseThrows(f) == f.shape # "object"

\* a test that looks at hostname only
isStatusResponse_hostnameOnly(f) == f.shape = "object" /\ "hostname" \in f.has

\* 'hostname' in response && 'mac' in response && 'firmwareVersion' in response
isStatusResponse(f) == f.shape = "object" /\ f.has = StatusFields

\* ------------------------------------------------- JavaScript numbers
\* The arithmetic of calculateHexValue is IEEE-754 double arithmetic.  A double
\* is written [m |-> M, e |-> E] for the value M * 2^E, with M a natural number
\* of at most 53 bits (54 for a power of two) held as a little-endian sequence
\* of 15-bit limbs, so that every intermediate product stays below 2^31.
LimbBits == 15

LimbBase == 2^15

MantissaBits == 53

RECURSIVE NatToLimbs(_)
NatToLimbs(n) == IF n = 0 THEN <<>> ELSE <<n % LimbBase>> \o NatToLimbs(n \div LimbBase)

RECURSIVE LimbsToNat(_)
LimbsToNat(L) == IF L = <<>> THEN 0 ELSE Head(L) + LimbBase * LimbsToNat(Tail(L))

RECURSIVE Trim(_)
Trim(L) ==
  IF L = <<>> THEN <<>>
  ELSE IF L[Len(L)] = 0 THEN Trim(SubSeq(L, 1, Len(L) - 1))
  ELSE L

RECURSIVE MulSmall(_, _, _)
MulSmall(L, k, carry) ==
  IF L = <<>> THEN NatToLimbs(carry)
  ELSE LET v == Head(L) * k + carry
       IN <<v % LimbBase>> \o MulSmall(Tail(L), k, v \div LimbBase)

RECURSIVE AddLimbs(_, _, _)
AddLimbs(A, B, carry) ==
  IF A = <<>> /\ B = <<>> THEN NatToLimbs(carry)
  ELSE LET a == IF A = <<>> THEN 0 ELSE Head(A)
           b == IF B = <<>> THEN 0 ELSE Head(B)
           v == a + b + carry
       IN <<v % LimbBase>> \o AddLimbs(IF A = <<>> THEN <<>> ELSE Tail(A),
                                       IF B = <<>> THEN <<>> ELSE Tail(B),
                                       v \div LimbBase)

\* A - B for A >= B
RECURSIVE SubLimbs(_, _, _)
SubLimbs(A, B, borrow) ==
  IF A = <<>> THEN <<>>
  ELSE LET b == IF B = <<>> THEN 0 ELSE Head(B)
           v == Head(A) - b - borrow
       IN <<v % LimbBase>> \o SubLimbs(Tail(A), IF B = <<>> THEN <<>> ELSE Tail(B),
                                       IF v < 0 THEN 1 ELSE 0)

RECURSIVE MulLimbs(_, _)
MulLimbs(A, B) ==
  IF B = <<>> THEN <<>>
  ELSE AddLimbs(MulSmall(A, Head(B), 0), <<0>> \o MulLimbs(A, Tail(B)), 0)

\* quotient and remainder of L by a divisor below 2^15, from the top limb down
RECURSIVE DivSmall(_, _, _, _)
DivSmall(L, d, i, rem) ==
  IF i = 0 THEN [q |-> <<>>, r |-> rem]
  ELSE LET cur == rem * LimbBase + L[i]
           rest == DivSmall(L, d, i - 1, cur % d)
       IN [q |-> Append(rest.q, cur \div d), r |-> rest.r]

RECURSIVE SmallBitLen(_)
SmallBitLen(n) == IF n = 0 THEN 0 ELSE 1 + SmallBitLen(n \div 2)

BitLen(L) ==
  LET T == Trim(L)
  IN IF T = <<>> THEN 0 ELSE LimbBits * (Len(T) - 1) + SmallBitLen(T[Len(T)])

ShiftLeft(L, n) ==
  [i \in 1..(n \div LimbBits) |-> 0] \o MulSmall(L, 2^(n % LimbBits), 0)

\* L shifted right by n bits, with the flag "bits were lost"
ShiftRight(L, n) ==
  LET w == n \div LimbBits
  IN IF w >= Len(L)
     THEN [q |-> <<>>, sticky |-> Trim(L) # <<>>]
     ELSE LET k == DivSmall(SubSeq(L, w + 1, Len(L)), 2^(n % LimbBits), Len(L) - w, 0)
          IN [q |-> Trim(k.q),
              sticky |-> k.r # 0 \/ \E i \in 1..w : L[i] # 0]

\* N * 2^e rounded to the nearest double, ties to even
RoundToDouble(N, e) ==
  LET len == BitLen(N)
  IN IF len <= MantissaBits THEN [m |-> Trim(N), e |-> e]
     ELSE LET r == len - MantissaBits
              sh == ShiftRight(N, r - 1)
              h == DivSmall(sh.q, 2, Len(sh.q), 0)
              q == Trim(h.q)
              up == h.r = 1 /\ (sh.sticky \/ q[1] % 2 = 1)
          IN [m |-> IF up THEN Trim(AddLimbs(q, <<1>>, 0)) ELSE q, e |-> e + r]

\* a / b for integers a >= 0 and 0 < b < 2^15: the quotient is taken to 75
\* fraction bits and one more bit records a remainder, then it is rounded
FlDiv(a, b) ==
  LET d == DivSmall(ShiftLeft(NatToLimbs(a), 5 * LimbBits), b, Len(NatToLimbs(a)) + 5, 0)
  IN RoundToDouble(MulSmall(Trim(d.q), 2, IF d.r # 0 THEN 1 ELSE 0), 0 - (5 * LimbBits + 1))

\* x * y
FlMul(x, y) == RoundToDouble(MulLimbs(x.m, y.m), x.e + y.e)

\* c - x for an integer c >= x >= 0
FlSubFrom(c, x) ==
  IF x.e >= 0 THEN [m |-> NatToLimbs(c - LimbsToNat(x.m) * 2^(x.e)), e |-> 0]
  ELSE RoundToDouble(Trim(SubLimbs(ShiftLeft(NatToLimbs(c), 0 - x.e), x.m, 0)), x.e)

\* Math.floor(x) for x >= 0 below 2^30
FlFloor(x) ==
  IF x.e >= 0 THEN LimbsToNat(x.m) * 2^(x.e)
  ELSE LimbsToNat(ShiftRight(x.m, 0 - x.e).q)

\* Math.round(x) for x >= 0: floor(x + 1/2), which is (floor(2x) + 1) div 2
FlRound(x) == (FlFloor([m |-> x.m, e |-> x.e + 1]) + 1) \div 2

FlInt(n) == [m |-> NatToLimbs(n), e |-> 0]

\* number.toString(16) of a natural number
RECURSIVE toString16(_)
toString16(n) ==
  IF n < 16 THEN SubSeq("0123456789abcdef", n + 1, n + 1)
  ELSE toString16(n \div 16) \o SubSeq("0123456789abcdef", (n % 16) + 1, (n % 16) + 1)

\* no padding at all
padStart2_none(str) == str

\* string.padStart(2, '0')
padStart2(str) == IF Len(str) < 2 THEN "0" \o str ELSE str

\* an invlerp whose clamp has no lower end: the distance from min is used
invlerp_noLowerClamp(min, max, n) ==
  IF n - min >= max - min THEN FlInt(1)
  ELSE IF n = min THEN FlInt(0)
  ELSE FlDiv(IF n > min THEN n - min ELSE min - n, max - min)

\* invlerp(min, max, n) == clamp((n - min) / (max - min)), with clamp's
\* defaults 0 and 1: a quotient that is not positive gives 0, one that is at
\* least 1 gives 1
invlerp(min, max, n) ==
  IF n - min <= 0 THEN FlInt(0)
  ELSE IF n - min >= max - min THEN FlInt(1)
  ELSE FlDiv(n - min, max - min)

\* lerp(min, max, n) == (1 - n) * min + n * max.  The only call has min = 0,
\* where (1 - n) * 0 is 0 and 0 + n * max is n * max.
lerp(min, max, n) == FlMul(n, FlInt(max))

\* interpolate(inputRange, outputRange, n)
interpolate(inputRange, outputRange, n) ==
  lerp(outputRange[1], outputRange[2], invlerp(inputRange[1], inputRange[2], n))

\* Math.round(1000000 / this.states.ColorTemperature)
Kelvin(mireds) == FlRound(FlDiv(1000000, mireds))

\* channels taken with Math.round in place of Math.floor
Channels_rounded(st) ==
  LET temperatureInKelvin == Kelvin(st.ColorTemperature)
      saturation_sct == interpolate(<<2200, 7000>>, <<0, 100>>, temperatureInKelvin)
      ratio == FlDiv(st.Brightness, 100)
  IN [cool |-> FlRound(FlMul(saturation_sct, ratio)),
      warm |-> FlRound(FlMul(FlSubFrom(100, saturation_sct), ratio))]

\* calculateHexValue, lines 611-620: coolValue and warmValue of a state that
\* is on, from the Kelvin value and the brightness
Channels(st) ==
  LET temperatureInKelvin == Kelvin(st.ColorTemperature)
      saturation_sct == interpolate(<<2200, 7000>>, <<0, 100>>, temperatureInKelvin)
      ratio == FlDiv(st.Brightness, 100)
  IN [cool |-> FlFloor(FlMul(saturation_sct, ratio)),
      warm |-> FlFloor(FlMul(FlSubFrom(100, saturation_sct), ratio))]

\* --------------------------------------------------- third iteration
\* a calculateHexValue without the test of On
calculateHexValue_noOff(st) ==
  LET c == Channels(st)
  IN "#" \o padStart2(toString16(c.cool)) \o padStart2(toString16(c.warm)) \o "00"

\* calculateHexValue: the color frame of a desired state.
calculateHexValue(st) ==
  IF ~st.On THEN "#000000"
  ELSE LET c == Channels(st)
       IN "#" \o padStart2(toString16(c.cool)) \o padStart2(toString16(c.warm)) \o "00"

\* sendMessage: ws.send(message) only when the current socket is open.
sendMessage(w, sk, message) == IF wsIsOpen(w, sk) THEN <<message>> ELSE <<>>

\* checkStatus
StatusQuery == "{\"cmd\":\"STATUS\"}"

checkStatus(w, sk) == sendMessage(w, sk, StatusQuery)

\* sendState: nothing unless isOnline
sendState(online, w, sk, st) ==
  IF ~online THEN <<>> ELSE sendMessage(w, sk, calculateHexValue(st))

\* a setter that forgets saveState leaves the stored record as it was
saveState_stale(st) == context_state

\* saveState: accessory.context.state = this.states
saveState(st) == st

\* updateNotResponding: the On characteristic is set to an Error
updateNotResponding == FALSE

\* updateCharacteristic(On, this.states.On): a real value
updateResponding == TRUE

\* a scheduleReconnect that never arms the interval
scheduleReconnect_never(ri) == ri

\* scheduleReconnect: a new interval only when the field is null
scheduleReconnect(ri) == IF ri = "null" THEN arm(ri) ELSE ri

\* a clearing that leaves the timer running
clearAndNull_keep(t) == t

\* `if (timer) { clear(timer); timer = null; }`
clearAndNull(t) == "null"

\* `if (timer) { clear(timer); }` (the field keeps the handle)
clearOnly(t) == IF t = "null" THEN "null" ELSE "spent"

\* a scheduleConnectionTimeout that arms without clearing the old timeout
scheduleConnectionTimeout_noClear(ct) == arm(ct)

\* scheduleConnectionTimeout: clears the old timeout, arms a new one
scheduleConnectionTimeout(ct) == arm(clearAndNull(ct))

\* number.toString() of a natural number
RECURSIVE toString10(_)
toString10(n) ==
  IF n < 10 THEN SubSeq("0123456789", n + 1, n + 1)
  ELSE toString10(n \div 10) \o SubSeq("0123456789", (n % 10) + 1, (n % 10) + 1)

\* The metadata characteristics before any status frame: the values the hub
\* gives a new accessory, and the name the constructor sets,
\* accessory.context.device.exampleDisplayName, a key discoverDevices never
\* writes (undefined).
DefaultInfo ==
  [SerialNumber |-> "Default-SerialNumber", FirmwareRevision |-> "0.0.0",
   Name |-> "undefined"]

\* status.firmwareVersion.toString() throws a TypeError for null
updateAccessoryInfoThrows(status) == status.firmwareVersion = JsonNull

\* updateAccessoryInfo: the three characteristics after the call (each is
\* written when it differs from the value of the frame)
updateAccessoryInfo(status) ==
  [SerialNumber |-> status.mac,
   FirmwareRevision |-> toString10(status.firmwareVersion),
   Name |-> status.hostname]

\* handleDisconnection
handleDisconnection ==
  /\ isOnline' = FALSE
  /\ statusCheckInterval' = clearAndNull(statusCheckInterval)
  /\ responding' = updateNotResponding
  /\ reconnectInterval' = scheduleReconnect(reconnectInterval)

\* connectWebSocket: closes the previous socket, creates the next one and
\* attaches the handlers; a throwing constructor goes to handleDisconnection.
connectWebSocket ==
  LET closed == IF ws # 0 THEN [sock EXCEPT ![ws] = closeSock(@)] ELSE sock
  IN /\ attempts' = attempts + 1
     /\ IF urlValid
        THEN /\ ws' = attempts + 1
             /\ sock' = [closed EXCEPT ![attempts + 1] = "CONNECTING"]
             /\ UNCHANGED <<isOnline, statusCheckInterval, responding, reconnectInterval>>
        ELSE /\ ws' = ws
             /\ sock' = closed
             /\ handleDisconnection

\* a loadCachedState that ignores the cached record
loadCachedState_defaults(cached) == DefaultStates

\* loadCachedState: the cached record when accessory.context.state exists, else
\* the defaults, which are then stored in the context.
loadCachedState(cached) == IF cached = NoCachedState THEN DefaultStates ELSE cached

\* ------------------------------------------------------------ the platform
\* platform.ts.  A device entry of the config is a record of the keys the user
\* wrote; a key that is absent reads as undefined.
MaxDevices == 2

\* The device entry of the README's configuration example.
ReadmeDevice ==
  [name |-> "CCT Downlighter 1", ip |-> "192.168.1.100", type |-> "cct_downlighter"]

\* Entries as config.schema.json describes them (restore_state is optional), the
\* README's entry, an entry of another device type and an entry without ip.
ConfigEntries ==
  { ReadmeDevice,
    [name |-> "Lamp A", ip |-> "192.168.1.100", device_type |-> "cct_downlighter"],
    [name |-> "Lamp A", ip |-> "192.168.1.100", device_type |-> "cct_downlighter",
     restore_state |-> TRUE],
    [name |-> "Lamp B", ip |-> "192.168.1.101", device_type |-> "cct_downlighter",
     restore_state |-> FALSE],
    [name |-> "Lamp B", ip |-> "192.168.1.101", device_type |-> "cct_downlighter",
     restore_state |-> TRUE],
    [name |-> "Plug", ip |-> "192.168.1.101", device_type |-> "smart_plug"],
    [name |-> "Lamp C", device_type |-> "cct_downlighter"] }

\* this.config: devices is an array of at most MaxDevices entries, or no array.
Configs ==
  {[isArray |-> FALSE, devices |-> <<>>]} \cup
  {[isArray |-> TRUE, devices |-> d] :
     d \in UNION {[1..n -> ConfigEntries] : n \in 0..MaxDevices}}

\* api.hap.uuid.generate(device.ip): the SHA-1 based uuid of the address.
uuidOf(ip) ==
  CASE ip = "192.168.1.100" -> "25c90651-c297-4fef-bcf7-87a191b93cce"
    [] ip = "192.168.1.101" -> "5e4fe169-007b-4144-9346-f9a278264d17"
    [] ip = "192.168.1.102" -> "58911914-444d-4392-a21e-aefe2439a85a"

\* The accessories the hub may have in its cache: those of the two configurable
\* addresses and one of an address that is configured no more.
CachedUuids == {uuidOf(ip) : ip \in {"192.168.1.100", "192.168.1.101", "192.168.1.102"}}

Has(d, key) == key \in DOMAIN d

InSeq(x, seq) == \E i \in 1..Len(seq) : seq[i] = x

\* The filter of validateConfig:
\* !device.ip || !device.device_type || device.device_type !== 'cct_downlighter'
\* rejects the entry.
validDevice(d) ==
  ~ \/ ~Has(d, "ip")
    \/ d.ip = ""
    \/ ~Has(d, "device_type")
    \/ d.device_type = ""
    \/ d.device_type # "cct_downlighter"

\* validateConfig: null when devices is no array or no entry is valid, else the
\* valid entries in order.
validateConfig(config) ==
  IF config.isArray
  THEN LET validDevices == SelectSeq(config.devices, validDevice)
       IN  IF Len(validDevices) = 0
           THEN [isNull |-> TRUE, devices |-> <<>>]
           ELSE [isNull |-> FALSE, devices |-> validDevices]
  ELSE [isNull |-> TRUE, devices |-> <<>>]

\* accessory.context.device as the restored-accessory branch writes it
\* (restore_state: device.restore_state; undefined reads as an absent key)
contextOfExisting(device) ==
  IF Has(device, "restore_state")
  THEN [name |-> device.name, type |-> device.device_type, ip |-> device.ip,
        restore_state |-> device.restore_state]
  ELSE [name |-> device.name, type |-> device.device_type, ip |-> device.ip]

\* accessory.context.device as the new-accessory branch writes it
contextOfNew(device) ==
  [name |-> device.name, type |-> device.device_type, ip |-> device.ip]

\* CCTDownlighter constructor: accessory.context.device.restore_state ?? false
restoreStateOf(contextDevice) ==
  IF Has(contextDevice, "restore_state") THEN contextDevice.restore_state ELSE FALSE

\* The fields of the object the third-iteration constructor was building when
\* it threw at line 502 (see Init): restore_state is read and the cached state
\* loaded, no connection attempt is made.  The object stays reachable through
\* the setOn bound to the On characteristic.
constructThird(rs, cached) ==
  [ urlValid |-> TRUE,
    restoreState |-> rs,
    states |-> loadCachedState(cached),
    context_state |-> IF cached = NoCachedState THEN loadCachedState(cached) ELSE cached,
    attempts |-> 0,
    ws |-> 0,
    sock |-> [s \in Sockets |-> "NONE"],
    reconnectInterval |-> "null",
    statusCheckInterval |-> "null",
    connectionTimeout |-> "null",
    isOnline |-> FALSE,
    responding |-> TRUE,
    lastStatus |-> 0,
    info |-> DefaultInfo,
    destroyed |-> FALSE,
    unsent |-> FALSE ]

\* The fields of a controller of the first iteration after its constructor
\* (see InitFirst): the class has no restoreState and reads no cached state;
\* accessory.context.state is left as it was found.
constructFirst(cached) ==
  [ urlValid |-> TRUE,
    states |-> DefaultStates,
    context_state |-> cached,
    attempts |-> 1,
    ws |-> 1,
    sock |-> [s \in Sockets |-> IF s = 1 THEN "CONNECTING" ELSE "NONE"],
    reconnectTimeout |-> "null",
    info |-> [DefaultInfo EXCEPT !.SerialNumber = "CCT-001"],
    destroyed |-> FALSE,
    unsent |-> FALSE ]

\* `new CCTDownlighter(this, accessory)`, for the class that
\* './CCTDownlighterAccessory.js' is: "first", the file next to platform.ts,
\* whose constructor returns; "third", the third iteration as it stands, whose
\* constructor throws.  One controller: the uuid and the accessory object it was
\* built over (created = 0: the restored object, k: the object created in
\* iteration k), the context.device it found, whether the constructor threw,
\* and the fields of the object.
newController(cls, uuid, k, contextDevice, cached) ==
  [ uuid |-> uuid,
    object |-> [uuid |-> uuid, created |-> k],
    device |-> contextDevice,
    threw |-> (cls = "third"),
    fields |-> IF cls = "first" THEN constructFirst(cached)
               ELSE constructThird(restoreStateOf(contextDevice), cached) ]

\* The platform before homebridge has restored anything.
NoPlatform ==
  [ config |-> [isArray |-> FALSE, devices |-> <<>>],
    accessories |-> <<>>,
    cachedStates |-> <<>>,
    discoveredCacheUUIDs |-> <<>>,
    updated |-> <<>>,
    registered |-> <<>>,
    unregistered |-> <<>>,
    controllers |-> <<>>,
    launched |-> FALSE,
    threw |-> FALSE ]

\* accessory.context.state of the restored accessory with this uuid
\* (p.cachedStates runs parallel to p.accessories).
cachedStateOf(p, uuid) ==
  p.cachedStates[CHOOSE i \in 1..Len(p.accessories) : p.accessories[i] = uuid]

\* Body of the loop of discoverDevices for the k-th valid entry.  When the
\* constructor throws, the statements after it are not reached.
discoverDevice(p, k, device, cls) ==
  LET uuid == uuidOf(device.ip)
      existingAccessory == InSeq(uuid, p.accessories)
  IN  IF existingAccessory
      THEN LET c == newController(cls, uuid, 0, contextOfExisting(device),
                                  cachedStateOf(p, uuid))
           IN  IF c.threw
               THEN [p EXCEPT
                       !.updated = Append(@, uuid),
                       !.controllers = Append(@, c),
                       !.threw = TRUE]
               ELSE [p EXCEPT
                       !.updated = Append(@, uuid),
                       !.controllers = Append(@, c),
                       !.discoveredCacheUUIDs = Append(@, uuid)]
      ELSE LET c == newController(cls, uuid, k, contextOfNew(device), NoCachedState)
           IN  IF c.threw
               THEN [p EXCEPT
                       !.controllers = Append(@, c),
                       !.threw = TRUE]
               ELSE [p EXCEPT
                       !.controllers = Append(@, c),
                       !.registered = Append(@, uuid),
                       !.discoveredCacheUUIDs = Append(@, uuid)]

RECURSIVE discoverLoop(_, _, _, _)
\* for (const device of devices) { ... }, from the k-th entry on; an exception
\* of the constructor ends it.
discoverLoop(p, devices, k, cls) ==
  IF k > Len(devices) \/ p.threw
  THEN p
  ELSE discoverLoop(discoverDevice(p, k, devices[k], cls), devices, k + 1, cls)

\* "remove accessories that are no longer configured"
removeUnconfigured(p) ==
  [p EXCEPT !.unregistered =
      SelectSeq(p.accessories, LAMBDA uuid : ~InSeq(uuid, p.discoveredCacheUUIDs))]

\* discoverDevices as a function of the platform; the exception of a
\* constructor leaves it before the removal loop.
discovered(p, cls) ==
  LET devices == validateConfig(p.config)
      looped == discoverLoop(p, devices.devices, 1, cls)
  IN  IF devices.isNull
      THEN [p EXCEPT !.launched = TRUE]
      ELSE IF looped.threw
           THEN [looped EXCEPT !.launched = TRUE]
           ELSE [removeUnconfigured(looped) EXCEPT !.launched = TRUE]

\* The controller variables while they show no controller.
NoController ==
  /\ urlValid = FALSE
  /\ restoreState = FALSE
  /\ ws = 0
  /\ sock = [s \in Sockets |-> "NONE"]
  /\ attempts = 0
  /\ reconnectInterval = "null"
  /\ reconnectTimeout = "null"
  /\ statusCheckInterval = "null"
  /\ connectionTimeout = "null"
  /\ isOnline = FALSE
  /\ responding = FALSE
  /\ lastStatus = 0
  /\ info = DefaultInfo
  /\ states = DefaultStates
  /\ context_state = NoCachedState
  /\ out = <<>>
  /\ destroyed = FALSE
  /\ unsent = FALSE

\* The states a restored accessory may hold in its context: none (stored by a
\* class that keeps no state there), the defaults, or what set-requests left.
RestoredStates ==
  {NoCachedState, DefaultStates, [On |-> TRUE, Brightness |-> 50, ColorTemperature |-> 143]}

\* The platform after its constructor: the config is read, nothing is restored.
\* iteration: the class './CCTDownlighterAccessory.js' is, the first iteration
\* (the file next to platform.ts) or the third.
InitPlatform ==
  /\ iteration \in {1, 3}
  /\ NoController
  /\ \E config \in Configs : platform = [NoPlatform EXCEPT !.config = config]
  /\ lastEvent = [op |-> "platform", arg |-> 0]

\* configureAccessory: homebridge hands over a cached accessory before launch.
configureAccessory(uuid, cached) ==
  /\ ~platform.launched
  /\ ~InSeq(uuid, platform.accessories)
  /\ platform' = [platform EXCEPT !.accessories = Append(@, uuid),
                                   !.cachedStates = Append(@, cached)]
  /\ lastEvent' = [op |-> "configureAccessory", arg |-> 0]
  /\ UNCHANGED <<iteration, urlValid, restoreState, ws, sock, attempts, reconnectInterval,
                 reconnectTimeout, statusCheckInterval, connectionTimeout, isOnline,
                 responding, lastStatus, info, states, context_state, out, destroyed,
                 unsent>>

\* 'didFinishLaunching': discoverDevices runs, once.  The controllers it
\* constructs are recorded in platform.controllers.
discoverDevices ==
  /\ ~platform.launched
  /\ platform' = discovered(platform, IF iteration = 1 THEN "first" ELSE "third")
  /\ lastEvent' = [op |-> "discoverDevices", arg |-> 0]
  /\ UNCHANGED <<iteration, urlValid, restoreState, ws, sock, attempts, reconnectInterval,
                 reconnectTimeout, statusCheckInterval, connectionTimeout, isOnline,
                 responding, lastStatus, info, states, context_state, out, destroyed,
                 unsent>>

NextPlatform ==
  \/ \E uuid \in CachedUuids, cached \in RestoredStates : configureAccessory(uuid, cached)
  \/ discoverDevices

SpecPlatform == InitPlatform /\ [][NextPlatform]_vars

\* State after `new CCTDownlighter(platform, accessory)`.  The constructor
\* reads restore_state, runs loadCachedState, takes the Lightbulb service, sets
\* its Name and registers setOn for the On characteristic; the next argument,
\* `this.getOn.bind(this)` (line 502), throws a TypeError, because the class
\* has no getOn (lines 804-806 hold it as a comment).  The handlers of
\* Brightness and ColorTemperature are not registered, connectWebSocket and
\* updateNotResponding are not reached: there is no socket and no timer, and
\* the On characteristic keeps the value the hub gave it.  The object lives on
\* in the setOn the On characteristic holds.  lastEvent.cached: the record
\* found in accessory.context.state.
Init ==
  /\ iteration = 3
  /\ urlValid \in BOOLEAN
  /\ restoreState \in BOOLEAN
  /\ \E cached \in CachedStates :
        /\ states = loadCachedState(cached)
        /\ context_state = IF cached = NoCachedState THEN states ELSE cached
        /\ lastEvent = [op |-> "constructor", arg |-> 0, cached |-> cached,
                        restarted |-> FALSE]
  /\ attempts = 0
  /\ ws = 0
  /\ sock = [s \in Sockets |-> "NONE"]
  /\ reconnectInterval = "null"
  /\ reconnectTimeout = "null"
  /\ statusCheckInterval = "null"
  /\ connectionTimeout = "null"
  /\ isOnline = FALSE
  /\ responding = TRUE
  /\ lastStatus = 0
  /\ info = DefaultInfo
  /\ out = <<>>
  /\ destroyed = FALSE
  /\ unsent = FALSE
  /\ platform = NoPlatform

\* The constructor run to its end, as it runs once the class has the getOn
\* its line 502 binds (the getter the spec lists, the one of the first two
\* iterations): after loadCachedState the handlers are registered,
\* connectWebSocket makes the first attempt and updateNotResponding marks the
\* accessory.  Every handler below other than setOn is reachable only from
\* here.
Constructed ==
  /\ iteration = 3
  /\ urlValid \in BOOLEAN
  /\ restoreState \in BOOLEAN
  /\ \E cached \in CachedStates :
        /\ states = loadCachedState(cached)
        /\ context_state = IF cached = NoCachedState THEN states ELSE cached
        /\ lastEvent = [op |-> "constructor", arg |-> 0, cached |-> cached,
                        restarted |-> FALSE]
  /\ attempts = 1
  /\ ws = IF urlValid THEN 1 ELSE 0
  /\ sock = [s \in Sockets |-> IF urlValid /\ s = 1 THEN "CONNECTING" ELSE "NONE"]
  /\ reconnectInterval = IF urlValid THEN "null" ELSE scheduleReconnect("null")
  /\ reconnectTimeout = "null"
  /\ statusCheckInterval = "null"
  /\ connectionTimeout = "null"
  /\ isOnline = FALSE
  /\ responding = updateNotResponding
  /\ lastStatus = 0
  /\ info = DefaultInfo
  /\ out = <<>>
  /\ destroyed = FALSE
  /\ unsent = FALSE
  /\ platform = NoPlatform

\* an 'open' handler that pushes the state whatever restoreState says
restoreOnOpen_always(rs, w, sk, st) == sendState(TRUE, w, sk, st)

\* 'open' handler, "Restore state to device based on configuration"
restoreOnOpen(rs, w, sk, st) == IF rs THEN sendState(TRUE, w, sk, st) ELSE <<>>

\* ws 'open' handler.  lastEvent.replaced: a connection timeout armed for an
\* earlier connection was still pending and this handler replaced it.
SocketOpen(s) ==
  /\ iteration = 3
  /\ sock[s] = "CONNECTING"
  /\ sock' = [sock EXCEPT ![s] = "OPEN"]
  /\ reconnectInterval' = clearAndNull(reconnectInterval)
  /\ statusCheckInterval' = arm(clearOnly(statusCheckInterval))
  /\ isOnline' = TRUE
  /\ out' = restoreOnOpen(restoreState, ws, sock', states)
  /\ responding' = updateResponding
  /\ connectionTimeout' = scheduleConnectionTimeout(connectionTimeout)
  /\ unsent' = IF out' # <<>> THEN FALSE ELSE unsent
  /\ UNCHANGED platform
  /\ lastEvent' = [op |-> "open", arg |-> s,
                   replaced |-> (connectionTimeout = "pending")]
  /\ UNCHANGED <<iteration, urlValid, restoreState, ws, attempts, reconnectTimeout,
                 lastStatus, info, states, context_state, destroyed>>

\* Does the body of the 'message' handler throw (and so end in its catch):
\* JSON.parse or an `in` test fails, or updateAccessoryInfo throws.
messageThrows(f) ==
  \/ parseThrows(f)
  \/ isStatusResponse(f) /\ updateAccessoryInfoThrows(DeviceStatuses[f.id])

\* ws 'message' handler, on an open socket, on one the controller has closed
\* and whose transport is not gone yet, or on one the peer has ended while
\* frames of it were still being inflated.  lastEvent.rearmed: the handler reached
\* its call of scheduleConnectionTimeout.
SocketMessage(s, f) ==
  /\ iteration = 3
  /\ sock[s] \in {"OPEN", "CLOSING", "ENDING"}
  /\ IF messageThrows(f)
     THEN /\ lastEvent' = [op |-> "message", arg |-> f, rearmed |-> FALSE]
          /\ UNCHANGED <<lastStatus, info, isOnline, responding, connectionTimeout>>
     ELSE /\ IF isStatusResponse(f)
             THEN /\ info' = updateAccessoryInfo(DeviceStatuses[f.id])
                  /\ lastStatus' = f.id
                  /\ isOnline' = TRUE
                  /\ responding' = IF ~isOnline THEN updateResponding ELSE responding
             ELSE UNCHANGED <<lastStatus, info, isOnline, responding>>
          /\ connectionTimeout' = scheduleConnectionTimeout(connectionTimeout)
          /\ lastEvent' = [op |-> "message", arg |-> f, rearmed |-> TRUE]
  /\ out' = <<>>
  /\ UNCHANGED <<iteration, urlValid, restoreState, ws, sock, attempts, reconnectInterval,
                 reconnectTimeout, statusCheckInterval, states, context_state,
                 destroyed, unsent, platform>>

\* What a socket in state st is after its 'error' handler ran.  A handshake the
\* controller aborted, or one whose request failed (connection refused), has
\* 'error' and 'close' emitted back to back: both handlers run (the second
\* call of handleDisconnection finds nothing left to do) and the socket is
\* closed.  A handshake the library rejects on an answer of the peer, and an
\* established socket (open, or closed by the controller or the peer) on a
\* frame the library rejects, have 'close' emitted by a later callback.
afterError(st) ==
  IF st = "ABORTED" THEN {"CLOSED"}
  ELSE IF st = "CONNECTING" THEN {"CLOSED", "ERRORED"}
  ELSE {"ERRORED"}

\* ws 'error' handler.
SocketError(s) ==
  /\ iteration = 3
  /\ sock[s] \in {"CONNECTING", "OPEN", "ABORTED", "CLOSING", "ENDING"}
  /\ \E st \in afterError(sock[s]) : sock' = [sock EXCEPT ![s] = st]
  /\ handleDisconnection
  /\ out' = <<>>
  /\ lastEvent' = [op |-> "error", arg |-> s]
  /\ UNCHANGED <<iteration, urlValid, restoreState, ws, attempts, reconnectTimeout,
                 connectionTimeout, lastStatus, info, states, context_state, destroyed, unsent, platform>>

\* The peer starts closing an open socket (close frame or end of stream): the
\* library sets readyState to CLOSING and emits 'close' only when the
\* transport is gone.  No handler of the controller runs.
PeerClosing(s) ==
  /\ sock[s] = "OPEN"
  /\ sock' = [sock EXCEPT ![s] = "ENDING"]
  /\ out' = <<>>
  /\ lastEvent' = [op |-> "peerClosing", arg |-> s]
  /\ UNCHANGED <<iteration, urlValid, restoreState, ws, attempts, reconnectInterval,
                 reconnectTimeout, statusCheckInterval, connectionTimeout, isOnline,
                 responding, lastStatus, info, states, context_state, destroyed, unsent, platform>>

\* ws 'close' handler: a closing socket is done.
SocketClose(s) ==
  /\ iteration = 3
  /\ sock[s] \in {"CLOSING", "ENDING", "ERRORED"}
  /\ sock' = [sock EXCEPT ![s] = "CLOSED"]
  /\ handleDisconnection
  /\ out' = <<>>
  /\ lastEvent' = [op |-> "close", arg |-> s]
  /\ UNCHANGED <<iteration, urlValid, restoreState, ws, attempts, reconnectTimeout,
                 connectionTimeout, lastStatus, info, states, context_state, destroyed, unsent, platform>>

\* callback of the reconnect interval
ReconnectTick ==
  /\ iteration = 3
  /\ reconnectInterval = "pending"
  /\ attempts < MaxAttempts
  /\ connectWebSocket
  /\ out' = <<>>
  /\ lastEvent' = [op |-> "reconnect", arg |-> 0]
  /\ UNCHANGED <<iteration, urlValid, restoreState, reconnectTimeout, connectionTimeout,
                 lastStatus, info, states, context_state, destroyed, unsent, platform>>

\* callback of the status-check interval
StatusTick ==
  /\ iteration = 3
  /\ statusCheckInterval = "pending"
  /\ out' = checkStatus(ws, sock)
  /\ lastEvent' = [op |-> "statusCheck", arg |-> 0]
  /\ UNCHANGED <<iteration, urlValid, restoreState, ws, sock, attempts, reconnectInterval,
                 reconnectTimeout, statusCheckInterval, connectionTimeout, isOnline,
                 responding, lastStatus, info, states, context_state, destroyed, unsent, platform>>

\* callback of the connection timeout: this.ws?.terminate(); handleDisconnection()
ConnectionTimeoutFire ==
  /\ iteration = 3
  /\ connectionTimeout = "pending"
  /\ connectionTimeout' = "spent"
  /\ sock' = IF ws # 0 THEN [sock EXCEPT ![ws] = closeSock(@)] ELSE sock
  /\ handleDisconnection
  /\ out' = <<>>
  /\ lastEvent' = [op |-> "timeout", arg |-> 0]
  /\ UNCHANGED <<iteration, urlValid, restoreState, ws, attempts, reconnectTimeout,
                 lastStatus, info, states, context_state, destroyed, unsent, platform>>

\* the part the three set handlers share: saveState, then sendState when online
afterSet(newStates) ==
  /\ states' = newStates
  /\ context_state' = saveState(newStates)
  /\ out' = IF isOnline THEN sendState(isOnline, ws, sock, newStates) ELSE <<>>
  /\ unsent' = (out' = <<>>)
  /\ UNCHANGED platform
  /\ UNCHANGED <<iteration, urlValid, restoreState, ws, sock, attempts, reconnectInterval,
                 reconnectTimeout, statusCheckInterval, connectionTimeout, isOnline,
                 lastStatus, info, destroyed>>

setOn(v) ==
  /\ iteration = 3
  /\ afterSet([states EXCEPT !.On = v])
  /\ responding' = IF isOnline THEN updateResponding ELSE responding
  /\ lastEvent' = [op |-> "setOn", arg |-> v]

\* a setBrightness that adds the value to the stored brightness (wrapping at 100)
setBrightness_relative(v) ==
  /\ iteration = 3
  /\ afterSet([states EXCEPT !.Brightness = (@ + v) % 101])
  /\ responding' = responding
  /\ lastEvent' = [op |-> "setBrightness", arg |-> v,
                   again |-> (lastEvent.op = "setBrightness" /\ lastEvent.arg = v)]

\* setBrightness.  lastEvent.again: the handler that ran just before was
\* setBrightness with the same value.
setBrightness(v) ==
  /\ iteration = 3
  /\ afterSet([states EXCEPT !.Brightness = v])
  /\ responding' = responding
  /\ lastEvent' = [op |-> "setBrightness", arg |-> v,
                   again |-> (lastEvent.op = "setBrightness" /\ lastEvent.arg = v)]

setColorTemperature(v) ==
  /\ iteration = 3
  /\ afterSet([states EXCEPT !.ColorTemperature = v])
  /\ responding' = responding
  /\ lastEvent' = [op |-> "setColorTemperature", arg |-> v]

\* The fields of the controller and the characteristics it writes.
fields == <<ws, sock, attempts, reconnectInterval, statusCheckInterval, connectionTimeout,
            isOnline, responding, lastStatus, info, states, context_state>>

\* a getter that refuses while the device is offline
getBrightness_offlineError ==
  /\ iteration = 3
  /\ out' = <<>>
  /\ lastEvent' = [op |-> "getBrightness",
                   arg |-> IF isOnline THEN states.Brightness ELSE JsonNull]
  /\ UNCHANGED <<fields, iteration, urlValid, restoreState, reconnectTimeout, destroyed,
                 unsent, platform>>

\* getBrightness: lastEvent.arg is the value returned
getBrightness ==
  /\ iteration = 3
  /\ out' = <<>>
  /\ lastEvent' = [op |-> "getBrightness", arg |-> states.Brightness]
  /\ UNCHANGED <<fields, iteration, urlValid, restoreState, reconnectTimeout, destroyed,
                 unsent, platform>>

\* getColorTemperature: lastEvent.arg is the value returned
getColorTemperature ==
  /\ iteration = 3
  /\ out' = <<>>
  /\ lastEvent' = [op |-> "getColorTemperature", arg |-> states.ColorTemperature]
  /\ UNCHANGED <<fields, iteration, urlValid, restoreState, reconnectTimeout, destroyed,
                 unsent, platform>>

destroy ==
  /\ iteration = 3
  /\ sock' = IF ws # 0 THEN [sock EXCEPT ![ws] = closeSock(@)] ELSE sock
  /\ reconnectInterval' = clearOnly(reconnectInterval)
  /\ statusCheckInterval' = clearOnly(statusCheckInterval)
  /\ destroyed' = TRUE
  /\ out' = <<>>
  /\ lastEvent' = [op |-> "destroy", arg |-> 0]
  /\ UNCHANGED <<iteration, urlValid, restoreState, ws, attempts, reconnectTimeout,
                 connectionTimeout, isOnline, responding, lastStatus, info, states,
                 context_state, unsent, platform>>

\* ------------------------------------------------------------ restart
\* The process restarts: the hub restores the accessory with the context it
\* stored, and discoverDevices runs the constructor over it again, which
\* throws again at line 502.
Restart ==
  /\ iteration = 3
  /\ states' = loadCachedState(context_state)
  /\ context_state' = IF context_state = NoCachedState THEN states' ELSE context_state
  /\ attempts' = 0
  /\ ws' = 0
  /\ sock' = [s \in Sockets |-> "NONE"]
  /\ reconnectInterval' = "null"
  /\ statusCheckInterval' = "null"
  /\ connectionTimeout' = "null"
  /\ isOnline' = FALSE
  /\ responding' = TRUE
  /\ lastStatus' = 0
  /\ info' = info
  /\ out' = <<>>
  /\ lastEvent' = [op |-> "constructor", arg |-> 0, cached |-> context_state,
                   restarted |-> TRUE]
  /\ destroyed' = FALSE
  /\ unsent' = FALSE
  /\ UNCHANGED platform
  /\ UNCHANGED <<iteration, urlValid, restoreState, reconnectTimeout>>

\* The program as src/ has it: of the handlers only setOn is ever registered,
\* and the process may restart.
Next ==
  \/ \E v \in BOOLEAN : setOn(v)
  \/ Restart

Spec == Init /\ [][Next]_vars

\* The connection attempts a controller makes when the hub's requests are
\* handled as well.
HubAttempts == 2

\* Every handler of a controller whose constructor ran to its end.
NextConstructed ==
  \/ \E s \in Sockets : SocketOpen(s)
  \/ \E s \in Sockets, f \in InboundFrames : SocketMessage(s, f)
  \/ \E s \in Sockets : SocketError(s)
  \/ \E s \in Sockets : PeerClosing(s)
  \/ \E s \in Sockets : SocketClose(s)
  \/ attempts < HubAttempts /\ ReconnectTick
  \/ StatusTick
  \/ ConnectionTimeoutFire
  \/ \E v \in BOOLEAN : setOn(v)
  \/ \E v \in BrightnessValues : setBrightness(v)
  \/ \E v \in MiredValues : setColorTemperature(v)
  \/ getBrightness
  \/ getColorTemperature
  \/ destroy

SpecConstructed == Constructed /\ [][NextConstructed]_vars

\* The link on its own: the controller as constructed over an empty cache,
\* driven by socket events, timers and destroy().  The set handlers are left
\* out: they write states, context_state and the On characteristic of a link
\* that is already online, and no field the connection logic reads.
InitLink == Constructed /\ states = DefaultStates

NextLink ==
  \/ \E s \in Sockets : SocketOpen(s)
  \/ \E s \in Sockets, f \in InboundFrames : SocketMessage(s, f)
  \/ \E s \in Sockets : SocketError(s)
  \/ \E s \in Sockets : PeerClosing(s)
  \/ \E s \in Sockets : SocketClose(s)
  \/ ReconnectTick
  \/ StatusTick
  \/ ConnectionTimeoutFire
  \/ destroy

\* The scheduling Node and the library give the program: the pending
\* reconnect interval ticks, a handshake the controller aborted emits its
\* 'error' and 'close' (on the next tick), a closing socket emits 'close'.
\* A handshake nobody aborts gets no fairness: `new WebSocket(wsUrl)` passes
\* no handshakeTimeout and the class arms no timer before 'open', so against
\* a peer that accepts the connection and stays silent the first attempt is
\* connecting for ever.  The connection timeout gets none either: every
\* inbound frame re-arms it, so a link that keeps receiving frames never sees
\* it fire.
Fair ==
  /\ WF_vars(ReconnectTick)
  /\ \A s \in Sockets : WF_vars(sock[s] = "ABORTED" /\ SocketError(s))
  /\ \A s \in Sockets : WF_vars(SocketClose(s))

SpecFair == InitLink /\ [][NextLink]_vars /\ Fair

\* The program as built under the same scheduling: timer callbacks and socket
\* events are served whenever one is due.
SpecBuiltFair == Init /\ [][Next]_vars /\ Fair

\* The same link without any assumption on scheduling.
SpecLink == InitLink /\ [][NextLink]_vars

\* ------------------------------------------------ calculateHexValue alone
\* calculateHexValue applied to each desired state of a grid: every brightness
\* of 0..100 with every color temperature the hub may write (143..455 mireds)
\* and some outside that range, on and off.
Brightnesses == 0..100

HubMireds == 143..455

MiredInputs == HubMireds \cup {1, 100, 120, 142, 456, 500, 1000}

InitHex ==
  /\ iteration = 0
  /\ states \in [On : BOOLEAN, Brightness : Brightnesses, ColorTemperature : MiredInputs]
  /\ context_state = states
  /\ urlValid = TRUE
  /\ restoreState = FALSE
  /\ ws = 0
  /\ sock = [s \in Sockets |-> "NONE"]
  /\ attempts = 0
  /\ reconnectInterval = "null"
  /\ reconnectTimeout = "null"
  /\ statusCheckInterval = "null"
  /\ connectionTimeout = "null"
  /\ isOnline = FALSE
  /\ responding = FALSE
  /\ lastStatus = 0
  /\ info = DefaultInfo
  /\ out = <<>>
  /\ lastEvent = [op |-> "states", arg |-> 0]
  /\ destroyed = FALSE
  /\ unsent = FALSE
  /\ platform = NoPlatform

\* out is the string calculateHexValue returns for this.states
computeHex ==
  /\ iteration = 0
  /\ lastEvent.op = "states"
  /\ out' = <<calculateHexValue(states)>>
  /\ lastEvent' = [op |-> "calculateHexValue", arg |-> 0]
  /\ UNCHANGED <<fields, iteration, urlValid, restoreState, reconnectTimeout, destroyed,
                 unsent, platform>>

NextHex == computeHex

SpecHex == InitHex /\ [][NextHex]_vars

\* ---------------------------------------------------- first iteration
\* src/src/CCTDownlighterAccessory.ts: no isOnline, no status polling, no
\* cache; the reconnect timer is a one-shot timeout.

\* calculateHexValue of the first iteration, left uninterpreted: the frame is
\* identified by the states it is computed from.
calculateHexValue1(st) == [hexOf |-> st]

\* sendState
sendState1(w, sk, st) == IF wsIsOpen(w, sk) THEN <<calculateHexValue1(st)>> ELSE <<>>

\* scheduleReconnect: `if (!this.reconnectTimeout)`
scheduleReconnect1(rt) == IF rt = "null" THEN "pending" ELSE rt

\* connectWebSocket: the previous socket is left alone
connectWebSocket1(rt) ==
  /\ attempts' = attempts + 1
  /\ IF urlValid
     THEN /\ ws' = attempts + 1
          /\ sock' = [sock EXCEPT ![attempts + 1] = "CONNECTING"]
          /\ reconnectTimeout' = rt
     ELSE /\ ws' = ws
          /\ sock' = sock
          /\ reconnectTimeout' = scheduleReconnect1(rt)

InitFirst ==
  /\ iteration = 1
  /\ urlValid \in BOOLEAN
  /\ restoreState = FALSE
  /\ states = DefaultStates
  /\ context_state = NoCachedState
  /\ attempts = 1
  /\ ws = IF urlValid THEN 1 ELSE 0
  /\ sock = [s \in Sockets |-> IF urlValid /\ s = 1 THEN "CONNECTING" ELSE "NONE"]
  /\ reconnectTimeout = IF urlValid THEN "null" ELSE scheduleReconnect1("null")
  /\ reconnectInterval = "null"
  /\ statusCheckInterval = "null"
  /\ connectionTimeout = "null"
  /\ isOnline = FALSE
  /\ responding = TRUE
  /\ lastStatus = 0
  /\ info = [DefaultInfo EXCEPT !.SerialNumber = "CCT-001"]
  /\ out = <<>>
  /\ lastEvent = [op |-> "constructor", arg |-> 0]
  /\ destroyed = FALSE
  /\ unsent = FALSE
  /\ platform = NoPlatform

SocketOpen1(s) ==
  /\ iteration = 1
  /\ sock[s] = "CONNECTING"
  /\ sock' = [sock EXCEPT ![s] = "OPEN"]
  /\ reconnectTimeout' = clearAndNull(reconnectTimeout)
  /\ out' = sendState1(ws, sock', states)
  /\ unsent' = IF out' # <<>> THEN FALSE ELSE unsent
  /\ UNCHANGED platform
  /\ lastEvent' = [op |-> "open", arg |-> s]
  /\ UNCHANGED <<iteration, urlValid, restoreState, ws, attempts, reconnectInterval,
                 statusCheckInterval, connectionTimeout, isOnline, responding,
                 lastStatus, info, states, context_state, destroyed>>

\* 'message' handler: the frame is logged
SocketMessage1(s, f) ==
  /\ iteration = 1
  /\ sock[s] \in {"OPEN", "CLOSING", "ENDING"}
  /\ out' = <<>>
  /\ lastEvent' = [op |-> "message", arg |-> f]
  /\ UNCHANGED <<iteration, urlValid, restoreState, ws, sock, attempts, reconnectInterval,
                 reconnectTimeout, statusCheckInterval, connectionTimeout, isOnline,
                 responding, lastStatus, info, states, context_state, destroyed, unsent, platform>>

\* 'error' handler (the 'close' handler follows: in the same callback when
\* the request failed, in a later one otherwise, see afterError)
SocketError1(s) ==
  /\ iteration = 1
  /\ sock[s] \in {"CONNECTING", "OPEN", "ABORTED", "CLOSING", "ENDING"}
  /\ \E st \in afterError(sock[s]) : sock' = [sock EXCEPT ![s] = st]
  /\ reconnectTimeout' = scheduleReconnect1(reconnectTimeout)
  /\ out' = <<>>
  /\ lastEvent' = [op |-> "error", arg |-> s]
  /\ UNCHANGED <<iteration, urlValid, restoreState, ws, attempts, reconnectInterval,
                 statusCheckInterval, connectionTimeout, isOnline, responding,
                 lastStatus, info, states, context_state, destroyed, unsent, platform>>

\* 'close' handler
SocketClose1(s) ==
  /\ iteration = 1
  /\ sock[s] \in {"CLOSING", "ENDING", "ERRORED"}
  /\ sock' = [sock EXCEPT ![s] = "CLOSED"]
  /\ reconnectTimeout' = scheduleReconnect1(reconnectTimeout)
  /\ out' = <<>>
  /\ lastEvent' = [op |-> "close", arg |-> s]
  /\ UNCHANGED <<iteration, urlValid, restoreState, ws, attempts, reconnectInterval,
                 statusCheckInterval, connectionTimeout, isOnline, responding,
                 lastStatus, info, states, context_state, destroyed, unsent, platform>>

\* callback of the reconnect timeout: the timeout has fired, the field keeps
\* its handle, connectWebSocket runs
ReconnectFire1 ==
  /\ iteration = 1
  /\ reconnectTimeout = "pending"
  /\ attempts < MaxAttempts
  /\ connectWebSocket1("spent")
  /\ out' = <<>>
  /\ lastEvent' = [op |-> "reconnect", arg |-> 0]
  /\ UNCHANGED <<iteration, urlValid, restoreState, reconnectInterval, statusCheckInterval,
                 connectionTimeout, isOnline, responding, lastStatus, info, states,
                 context_state, destroyed, unsent, platform>>

afterSet1(newStates) ==
  /\ states' = newStates
  /\ out' = sendState1(ws, sock, newStates)
  /\ unsent' = (out' = <<>>)
  /\ UNCHANGED platform
  /\ UNCHANGED <<iteration, urlValid, restoreState, ws, sock, attempts, reconnectInterval,
                 reconnectTimeout, statusCheckInterval, connectionTimeout, isOnline,
                 responding, lastStatus, info, context_state, destroyed>>

setOn1(v) ==
  /\ iteration = 1
  /\ afterSet1([states EXCEPT !.On = v])
  /\ lastEvent' = [op |-> "setOn", arg |-> v]

setBrightness1(v) ==
  /\ iteration = 1
  /\ afterSet1([states EXCEPT !.Brightness = v])
  /\ lastEvent' = [op |-> "setBrightness", arg |-> v]

setColorTemperature1(v) ==
  /\ iteration = 1
  /\ afterSet1([states EXCEPT !.ColorTemperature = v])
  /\ lastEvent' = [op |-> "setColorTemperature", arg |-> v]

destroy1 ==
  /\ iteration = 1
  /\ sock' = IF ws # 0 THEN [sock EXCEPT ![ws] = closeSock(@)] ELSE sock
  /\ reconnectTimeout' = clearOnly(reconnectTimeout)
  /\ destroyed' = TRUE
  /\ out' = <<>>
  /\ lastEvent' = [op |-> "destroy", arg |-> 0]
  /\ UNCHANGED <<iteration, urlValid, restoreState, ws, attempts, reconnectInterval,
                 statusCheckInterval, connectionTimeout, isOnline, responding,
                 lastStatus, info, states, context_state, unsent, platform>>

NextFirst ==
  \/ \E s \in Sockets : SocketOpen1(s)
  \/ \E s \in Sockets, f \in InboundFrames : SocketMessage1(s, f)
  \/ \E s \in Sockets : SocketError1(s)
  \/ \E s \in Sockets : PeerClosing(s)
  \/ \E s \in Sockets : SocketClose1(s)
  \/ ReconnectFire1
  \/ \E v \in BOOLEAN : setOn1(v)
  \/ \E v \in BrightnessValues : setBrightness1(v)
  \/ \E v \in MiredValues : setColorTemperature1(v)
  \/ destroy1

SpecFirst == InitFirst /\ [][NextFirst]_vars

\* ---------------------------------------------------------------- claims
SetOps == {"setOn", "setBrightness", "setColorTemperature"}

IsColorFrame(m) == m # StatusQuery

ColorFrames(o) == SelectSeq(o, IsColorFrame)

\* C4: after construction and after every handled event the responding flag
\* (the last value pushed to the On characteristic is a real value) is true
\* exactly when isOnline is true.
C4_RespondingIffOnline == responding <=> isOnline

\* C5: a set-request with value v, issued in any link state, leaves the
\* addressed field of states equal to v and the other two fields as they were,
\* and the persisted record equals the whole of states afterwards; the
\* persisted record equals states in every state.
C5_SetPersists ==
  /\ [](context_state = states)
  /\ [][/\ lastEvent'.op = "setOn" =>
             /\ states'.On = lastEvent'.arg
             /\ states'.Brightness = states.Brightness
             /\ states'.ColorTemperature = states.ColorTemperature
        /\ lastEvent'.op = "setBrightness" =>
             /\ states'.Brightness = lastEvent'.arg
             /\ states'.On = states.On
             /\ states'.ColorTemperature = states.ColorTemperature
        /\ lastEvent'.op = "setColorTemperature" =>
             /\ states'.ColorTemperature = lastEvent'.arg
             /\ states'.On = states.On
             /\ states'.Brightness = states.Brightness
        /\ lastEvent'.op \in SetOps => context_state' = states']_vars

\* C5 case: a brightness written while the link is offline is stored.
C5_Witness ==
  /\ lastEvent.op = "setBrightness"
  /\ ~isOnline
  /\ states.Brightness = 50
  /\ context_state = states

\* C6: a set-request issued while the link is Online transmits exactly one
\* color frame, the encoding of states after the mutation; a set-request issued
\* while the link is not Online transmits nothing; and no frame is transmitted
\* in a state where the link is not Online.  (Stated for a controller that has
\* not been destroyed.)
C6_SetSendsIffOnline ==
  ~destroyed =>
    /\ lastEvent.op \in SetOps =>
         out = IF isOnline THEN <<calculateHexValue(states)>> ELSE <<>>
    /\ out # <<>> => isOnline

\* C7: with restoreState true, every transition of the link to Online
\* transmits exactly one color frame, the encoding of the states current at
\* the transition.
C7_RestoreOnEveryOnline ==
  [][(restoreState /\ ~isOnline /\ isOnline') =>
        out' = <<calculateHexValue(states')>>]_vars

\* C8: with restoreState false, a transition to Online transmits no color
\* frame: every color frame is transmitted by a set-request, so what was set
\* while offline is never replayed.
C8_NoRestoreNoReplay ==
  ~restoreState => (ColorFrames(out) # <<>> => lastEvent.op \in SetOps)

\* C8 case: the socket opens with restoreState false after a set-request that
\* was made offline and never transmitted.
C8_Witness ==
  /\ ~restoreState
  /\ lastEvent.op = "open"
  /\ isOnline
  /\ unsent
  /\ out = <<>>

\* C9: after destroy() no later event leads to connectWebSocket again.
C9_DestroyTerminal == [][destroyed => attempts' = attempts]_vars

\* C10: immediately after destroy() returns, none of the reconnect timer, the
\* status-poll timer and the activity timeout is pending.
C10_DestroyCancelsTimers ==
  lastEvent.op = "destroy" =>
    /\ reconnectInterval # "pending"
    /\ statusCheckInterval # "pending"
    /\ connectionTimeout # "pending"

\* The current socket is connecting or open.
CurrentAlive == ws # 0 /\ sock[ws] \in {"CONNECTING", "OPEN"}

\* The latest attempt has failed, or the connection it made is closed.
CurrentFailed == ws = 0 \/ sock[ws] \in {"ABORTED", "ERRORED", "CLOSED"}

\* C1: as long as destroy() has not been called, whenever the current attempt
\* has failed or the established connection has closed, errored or timed out,
\* a reconnect interval is pending and a new call of connectWebSocket is
\* eventually made, attempt after attempt (up to the number of attempts the
\* model follows).
C1_NeverGivesUp ==
  /\ []((~destroyed /\ CurrentFailed) => reconnectInterval = "pending")
  /\ \A n \in 1..(MaxAttempts - 1) :
        (~destroyed /\ attempts = n /\ ~CurrentAlive) ~> (attempts > n \/ destroyed)

\* C1 case: a reconnect attempt has itself failed and the interval is still
\* pending for the next one.
C1_Witness ==
  /\ ~destroyed
  /\ attempts >= 2
  /\ lastEvent.op = "error"
  /\ ws # 0 /\ sock[ws] = "CLOSED"
  /\ reconnectInterval = "pending"

\* C2: in the first iteration, if every connection attempt fails, another call
\* of connectWebSocket is eventually made after each failed attempt.  Only the
\* constructor and the callback of the reconnect timeout call connectWebSocket,
\* so after a failed attempt the reconnect timeout has to be pending.
C2_FirstRetriesForever ==
  (iteration = 1 /\ ~destroyed /\ CurrentFailed) => reconnectTimeout = "pending"

\* No handshake fails or is aborted in this step.
NoAttemptFails ==
  \A s \in Sockets : sock[s] = "CONNECTING" => sock'[s] \in {"CONNECTING", "OPEN"}

\* Every connection attempt succeeds from some point on: no handshake fails
\* or is aborted any more, and a handshake that stays pending ends in 'open'.
AttemptsSucceed ==
  /\ <>[][NoAttemptFails]_vars
  /\ \A s \in Sockets : WF_vars(SocketOpen(s))

\* C3: if from some point on every connection attempt succeeds, then (timers
\* and socket events scheduled fairly, no destroy()) the link becomes Online
\* and the responding flag becomes true, again and again after that point.
C3_EventuallyOnline ==
  AttemptsSucceed => []<>((isOnline /\ responding) \/ destroyed)

\* ------------------------------------------------------------ C11 .. C20
\* The value of a hex digit, and of a two-digit channel of a color frame.
hexDigit(c) == CHOOSE d \in 0..15 : SubSeq("0123456789abcdef", d + 1, d + 1) = c

fromHex2(str) == 16 * hexDigit(SubSeq(str, 1, 1)) + hexDigit(SubSeq(str, 2, 2))

HexChars == {SubSeq("0123456789abcdef", d, d) : d \in 1..16}

\* The channels a color frame of 7 characters carries.
coolOf(frame) == fromHex2(SubSeq(frame, 2, 3))

warmOf(frame) == fromHex2(SubSeq(frame, 4, 5))

Computed == lastEvent.op = "calculateHexValue"

\* C16: for every brightness in 0..100 and every color temperature, a state
\* that is off gives the frame '#000000', whose channels are (0, 0).
C16_OffIsBlack ==
  (Computed /\ ~states.On) =>
     /\ out = <<"#000000">>
     /\ coolOf(out[1]) = 0
     /\ warmOf(out[1]) = 0

\* C16 case: an off state with a brightness and a color temperature that
\* would give two channels above zero.
C16_Witness ==
  /\ Computed
  /\ ~states.On
  /\ states.Brightness = 80
  /\ states.ColorTemperature = 250
  /\ out = <<"#000000">>

\* C17: with On true and any brightness in 0..100, a color temperature whose
\* Kelvin value is at most 2200 gives a cool channel of 0 and one whose Kelvin
\* value is at least 7000 gives a warm channel of 0.
C17_ClampedEnds ==
  (Computed /\ states.On) =>
     /\ Kelvin(states.ColorTemperature) <= 2200 => coolOf(out[1]) = 0
     /\ Kelvin(states.ColorTemperature) >= 7000 => warmOf(out[1]) = 0

\* C17 case: 1000 mireds (1000 K, far below the warm end) at full brightness:
\* all the light is warm.
C17_Witness ==
  /\ Computed
  /\ states.On
  /\ states.ColorTemperature = 1000
  /\ states.Brightness = 100
  /\ coolOf(out[1]) = 0
  /\ warmOf(out[1]) = 100

\* C18: for every brightness in 0..100 and every positive color temperature,
\* on or off, the frame is '#', two hex digits of the cool channel, two hex
\* digits of the warm channel and '00', 7 characters in all, and each channel
\* is in 0..100.
C18_FrameShape ==
  Computed =>
    /\ Len(out) = 1
    /\ Len(out[1]) = 7
    /\ SubSeq(out[1], 1, 1) = "#"
    /\ \A i \in 2..5 : SubSeq(out[1], i, i) \in HexChars
    /\ SubSeq(out[1], 6, 7) = "00"
    /\ coolOf(out[1]) \in 0..100
    /\ warmOf(out[1]) \in 0..100
    /\ states.On => /\ coolOf(out[1]) = Channels(states).cool
                    /\ warmOf(out[1]) = Channels(states).warm

\* C18 case: a cool channel that needs padding (one hex digit) next to a warm
\* channel of two digits.
C18_Witness ==
  /\ Computed
  /\ states.On
  /\ coolOf(out[1]) \in 1..15
  /\ warmOf(out[1]) >= 16
  /\ Len(out[1]) = 7

\* The reference of C19 in exact arithmetic: K = round(1000000/m),
\* s = 100 * clamp((K - 2200)/4800, 0, 1), so s*b/100 = c*b/4800 for
\* c = clamp(K - 2200, 0, 4800).
ReferenceKelvin(m) == (2000000 + m) \div (2 * m)

ReferenceChannels(st) ==
  LET K == ReferenceKelvin(st.ColorTemperature)
      c == IF K <= 2200 THEN 0 ELSE IF K >= 7000 THEN 4800 ELSE K - 2200
  IN [cool |-> (c * st.Brightness) \div 4800,
      warm |-> ((4800 - c) * st.Brightness) \div 4800]

\* C19: for On true, brightness in 0..100 and a color temperature in 143..455
\* mireds, the two channels of the frame are those of the reference:
\* cool = floor(s*b/100) and warm = floor((100 - s)*b/100).
C19_MatchesReference ==
  (Computed /\ states.On /\ states.ColorTemperature \in HubMireds) =>
     /\ coolOf(out[1]) = ReferenceChannels(states).cool
     /\ warmOf(out[1]) = ReferenceChannels(states).warm

GetOps == {"getBrightness", "getColorTemperature"}

\* C11: getBrightness and getColorTemperature return the value states holds,
\* whatever the state of the link, and leave every field of the controller
\* and every characteristic as it was.
C11_GettersReturnStates ==
  /\ [](lastEvent.op = "getBrightness" => lastEvent.arg = states.Brightness)
  /\ [](lastEvent.op = "getColorTemperature" => lastEvent.arg = states.ColorTemperature)
  /\ [][lastEvent'.op \in GetOps => (UNCHANGED fields /\ out' = <<>>)]_vars

\* C11 case: the brightness is read while the link is disconnected (the
\* attempt failed, a reconnect is pending), after it was written offline.
C11_Witness ==
  /\ lastEvent.op = "getBrightness"
  /\ lastEvent.arg = 50
  /\ ~isOnline
  /\ ws # 0 /\ sock[ws] = "CLOSED"
  /\ reconnectInterval = "pending"

\* C12: when the connection timeout fires while the link is online (and the
\* controller has not been destroyed), the socket in this.ws is no longer
\* connecting or open, isOnline and the responding flag are false, the status
\* interval is not pending and the reconnect interval is pending.
C12_TimeoutDisconnects ==
  [][(isOnline /\ ~destroyed /\ lastEvent'.op = "timeout") =>
        /\ ~isOnline'
        /\ ~responding'
        /\ statusCheckInterval' # "pending"
        /\ reconnectInterval' = "pending"
        /\ ws' # 0 /\ sock'[ws'] \notin {"CONNECTING", "OPEN"}]_vars

\* C12 case: the timeout fired on an open, online link: the socket is closing
\* and the reconnect interval is pending.
C12_Witness ==
  /\ lastEvent.op = "timeout"
  /\ ~destroyed
  /\ ws # 0 /\ sock[ws] = "CLOSING"
  /\ ~isOnline
  /\ ~responding
  /\ statusCheckInterval = "null"
  /\ reconnectInterval = "pending"

\* C13: every inbound frame, of whatever kind, re-arms the connection timeout.
C13_EveryFrameRearms ==
  lastEvent.op = "message" => (lastEvent.rearmed /\ connectionTimeout = "pending")

\* What the metadata characteristics are to be after a status frame.
InfoOf(status) ==
  [SerialNumber |-> status.mac,
   FirmwareRevision |-> IF status.firmwareVersion = JsonNull THEN "null"
                        ELSE toString10(status.firmwareVersion),
   Name |-> status.hostname]

\* C14: a frame that is an object with the three fields hostname, mac and
\* firmwareVersion leaves the metadata equal to the values of the frame and
\* lastStatus equal to the frame; any other frame leaves both as they were.
C14_StatusUpdatesMetadata ==
  [][lastEvent'.op = "message" =>
       IF lastEvent'.arg.shape = "object" /\ lastEvent'.arg.has = StatusFields
       THEN /\ info' = InfoOf(DeviceStatuses[lastEvent'.arg.id])
            /\ lastStatus' = lastEvent'.arg.id
       ELSE /\ info' = info
            /\ lastStatus' = lastStatus]_vars

\* C15: a status frame received while isOnline is false makes isOnline and the
\* responding flag true; one received while isOnline is true leaves both as
\* they were.
C15_StatusBringsOnline ==
  [][(lastEvent'.op = "message" /\ isStatusResponse(lastEvent'.arg)) =>
       IF ~isOnline THEN isOnline' /\ responding'
       ELSE isOnline' = isOnline /\ responding' = responding]_vars

\* C20: while the link is online, a second setBrightness(v) right after a
\* first one with the same v changes neither states nor the persisted record
\* and transmits the frames the first call transmitted.
C20_SetBrightnessIdempotent ==
  [][(lastEvent'.op = "setBrightness" /\ lastEvent'.again /\ isOnline) =>
        /\ states' = states
        /\ context_state' = context_state
        /\ out' = out]_vars

\* C20 case: the second of two equal calls on an open, online link with the
\* light on: the frame of the first call is transmitted again.
C20_Witness ==
  /\ lastEvent.op = "setBrightness"
  /\ lastEvent.again
  /\ lastEvent.arg = 50
  /\ isOnline
  /\ wsIsOpen(ws, sock)
  /\ states.On
  /\ out = <<calculateHexValue(states)>>

\* ------------------------------------------------------------ C21 .. C30
\* C21: a constructor run over the record the previous run left starts with
\* states equal to the final states of that run (and leaves the record as it
\* is); a constructor run over no record starts with the defaults and stores
\* them as the record.
C21_RestartRoundTrip ==
  /\ [][(lastEvent'.op = "constructor" /\ lastEvent'.restarted) =>
          (states' = states /\ context_state' = states)]_vars
  /\ []((lastEvent.op = "constructor" /\ lastEvent.cached = NoCachedState) =>
          (states = DefaultStates /\ context_state = DefaultStates))
  /\ []((lastEvent.op = "constructor" /\ lastEvent.cached # NoCachedState) =>
          (states = lastEvent.cached /\ context_state = lastEvent.cached))

\* C21 case: after a restart the constructor has loaded a record the previous
\* run left.
C21_Witness ==
  /\ lastEvent.op = "constructor"
  /\ lastEvent.restarted
  /\ states = [On |-> TRUE, Brightness |-> 50, ColorTemperature |-> 143]
  /\ context_state = states

\* C26: none of the three timer fields ever holds a pending timer while a
\* timer it held before is still pending.
C26_OneTimerOfEachKind ==
  /\ reconnectInterval \in {"null", "pending", "spent"}
  /\ statusCheckInterval \in {"null", "pending", "spent"}
  /\ connectionTimeout \in {"null", "pending", "spent"}

\* C26 case: the connection timeout was re-armed by an inbound frame on a
\* connection made by a reconnect attempt.
C26_Witness ==
  /\ lastEvent.op = "message"
  /\ lastEvent.rearmed
  /\ attempts >= 2
  /\ connectionTimeout = "pending"
  /\ statusCheckInterval = "pending"

\* C27: in every state where isOnline is false, neither the status interval
\* nor the connection timeout is pending.
C27_OfflineCancelsTimers ==
  ~isOnline => (statusCheckInterval # "pending" /\ connectionTimeout # "pending")

\* C28: in every state where isOnline is true, the reconnect interval is not
\* pending and the status interval and the connection timeout are pending.
C28_OnlineTimers ==
  isOnline =>
    /\ reconnectInterval # "pending"
    /\ statusCheckInterval = "pending"
    /\ connectionTimeout = "pending"

\* C29: after the 'open' of a reconnect attempt the link is online, the
\* responding flag is true, no reconnect interval is pending and exactly one
\* connection timeout is pending, the one this handler armed.
C29_ReopenIsClean ==
  (lastEvent.op = "open" /\ attempts >= 2) =>
    /\ isOnline
    /\ responding
    /\ reconnectInterval = "null"
    /\ connectionTimeout = "pending"
    /\ statusCheckInterval = "pending"

\* C29 case: open, close, open: socket 1 was open (its connection timeout was
\* still pending when socket 2 opened) and is closed, no status frame arrived.
C29_Witness ==
  /\ lastEvent.op = "open"
  /\ lastEvent.arg = 2
  /\ lastEvent.replaced
  /\ sock[1] = "CLOSED"
  /\ lastStatus = 0
  /\ isOnline
  /\ connectionTimeout = "pending"

\* The frames C30 is about: text that is not JSON, JSON that is not an object,
\* an object lacking one of hostname, mac, firmwareVersion, and an object whose
\* firmwareVersion is null.
MalformedOrNonStatus(f) ==
  \/ f.shape # "object"
  \/ f.has # {"hostname", "mac", "firmwareVersion"}
  \/ f.id = 3

\* C30: a frame that is not a well-formed status frame (not JSON, not an
\* object, lacking one of the three fields, or with firmwareVersion null)
\* changes neither isOnline, nor the responding flag, nor states, nor the
\* persisted record, nor the metadata, and transmits nothing.
C30_OtherFramesChangeNothing ==
  [][(lastEvent'.op = "message" /\ MalformedOrNonStatus(lastEvent'.arg)) =>
        /\ UNCHANGED <<isOnline, responding, states, context_state, info, lastStatus>>
        /\ UNCHANGED <<ws, sock, reconnectInterval, statusCheckInterval>>
        /\ out' = <<>>]_vars

\* C30 case: a frame that lacks firmwareVersion arrives on an open, online
\* link whose metadata a status frame has set.
C30_Witness ==
  /\ lastEvent.op = "message"
  /\ lastEvent.arg.shape = "object"
  /\ lastEvent.arg.has = {"hostname", "mac"}
  /\ isOnline
  /\ lastStatus = 2
  /\ info.Name = "lamp2"

\* The valid entries of the config, in order (one controller is built per entry).
ValidDevices == validateConfig(platform.config).devices

\* restore_state as configured: false when the option is absent.
configuredRestoreState(device) ==
  IF Has(device, "restore_state") THEN device.restore_state ELSE FALSE

\* C22: after discoverDevices, every third-iteration controller built for a
\* valid configured device, restored or new, has restoreState equal to the
\* configured restore_state (false when absent).
C22_RestoreStateAsConfigured ==
  (platform.launched /\ iteration = 3) =>
    \A k \in 1..Len(platform.controllers) :
       platform.controllers[k].fields.restoreState = configuredRestoreState(ValidDevices[k])

\* C23: after discoverDevices over a config that holds the README's entry, a
\* controller exists for that entry.
C23_ReadmeEntryAccepted ==
  (platform.launched /\ InSeq(ReadmeDevice, platform.config.devices)) =>
     \E k \in 1..Len(platform.controllers) :
        /\ platform.controllers[k].device.name = ReadmeDevice.name
        /\ platform.controllers[k].device.ip = ReadmeDevice.ip

\* C24: one run of discoverDevices registers no uuid twice, registers no uuid
\* of a restored accessory, and builds at most one controller per uuid.
C24_OncePerUuid ==
  platform.launched =>
    /\ \A i, j \in 1..Len(platform.registered) :
          platform.registered[i] = platform.registered[j] => i = j
    /\ \A i \in 1..Len(platform.registered) :
          ~InSeq(platform.registered[i], platform.accessories)
    /\ \A i, j \in 1..Len(platform.controllers) :
          platform.controllers[i].uuid = platform.controllers[j].uuid => i = j

\* ------------------------------------------------------------ C31 .. C33
\* The uuids of the valid configured devices.
ValidUuids == {uuidOf(ValidDevices[k].ip) : k \in 1..Len(ValidDevices)}

\* C31: after discoverDevices, for every config (also one without a valid
\* device), every restored accessory whose uuid is not that of a valid
\* configured device has been unregistered, and no accessory of a valid
\* configured device has been unregistered.
C31_UnconfiguredRemoved ==
  platform.launched =>
    /\ \A i \in 1..Len(platform.accessories) :
          platform.accessories[i] \notin ValidUuids =>
             InSeq(platform.accessories[i], platform.unregistered)
    /\ \A i \in 1..Len(platform.unregistered) :
          platform.unregistered[i] \notin ValidUuids

\* C32: for every state that is on, with brightness b in 0..100 and
\* any positive mired value, the channels of the frame satisfy
\* b - 1 <= cool + warm <= b.
C32_SumWithinOne ==
  (Computed /\ states.On) =>
     /\ states.Brightness - 1 <= coolOf(out[1]) + warmOf(out[1])
     /\ coolOf(out[1]) + warmOf(out[1]) <= states.Brightness

\* C32 case: both channels lit at full brightness, and one unit lost to the
\* two floors.
C32_Witness ==
  /\ Computed
  /\ states.On
  /\ states.Brightness = 100
  /\ coolOf(out[1]) > 0
  /\ warmOf(out[1]) > 0
  /\ coolOf(out[1]) + warmOf(out[1]) = 99

\* The 'error' or 'close' callback of a socket that is not the one in this.ws.
SupersededCallback ==
  /\ lastEvent'.op \in {"error", "close"}
  /\ lastEvent'.arg # ws

\* C33: under every interleaving of socket callbacks and timers, whenever
\* isOnline is true the socket held in this.ws is open, and a callback of a
\* superseded socket never takes the link offline while the current socket is
\* open.
C33_OnlineMeansOpen ==
  /\ [](isOnline => wsIsOpen(ws, sock))
  /\ [][(SupersededCallback /\ isOnline /\ wsIsOpen(ws, sock)) => isOnline']_vars

====
